---- MODULE Spec2Model ----
(***************************************************************************)
(* Model of !pyTests/server_yahoo.py: the coroutine main() (the ingestion  *)
(* loop and its supervisor code) and the task rate_printer() (the periodic *)
(* reporter), scheduled cooperatively by one asyncio event loop.  A task   *)
(* runs from one await to the next without interruption, so every action   *)
(* below is the code between two suspension points of one task.            *)
(***************************************************************************)
EXTENDS Integers, Sequences, FiniteSets, TLC

VARIABLES
    clock,              \* the event loop's monotonic time, which its timers use
    skew,               \* how far the wall clock has been set back behind it
    mainPc,             \* the await at which main() is suspended, or "done"
    exc,                \* the exception travelling out of main's with-block
    loopEnd,            \* why the async-for loop stopped ("none" while it has not)
    reporter_task,      \* state of the task made at line 71 ("none" before that)
    deadline,           \* the time at which the reporter's asyncio.sleep(60) is due
    started_at,         \* history: the time of the reporter's first step (-1 before)
    cancel_called,      \* reporter_task.cancel() has been called (line 94)
    global_timestamps,  \* deque of line 58
    symbol_timestamps,  \* defaultdict(deque) of line 59, in insertion order
    report,             \* the summary of the tick in progress (NoReport outside one)
    reports,            \* the summaries printed by rate_printer, oldest first
    system_messages,    \* the decoded messages printed at line 86
    console,            \* the other lines main() prints
    hist                \* history: every pricing event recorded, in order

vars == <<clock, skew, mainPc, exc, loopEnd, reporter_task, deadline,
          started_at, cancel_called, global_timestamps, symbol_timestamps,
          report, reports, system_messages, console, hist>>

\* time.time()
WallClock == clock - skew

\* ---------------------------------------------------------------- constants

\* one_minute_ago = now - 60
Window == 60
\* await asyncio.sleep(60)
SleepSecs == 60

\* Bounds of the model: the clock moves in steps of ClockStep up to MaxClock,
\* and the source delivers at most MaxFrames frames.
ClockStep == 30
MaxClock == 150
MaxFrames == 2

\* ------------------------------------------------------------------ frames

\* The raw text frames the source may deliver.
RawFrames ==
    { "{\"type\":\"pricing\",\"message\":{\"id\":\"AAPL\"}}",
      "{\"type\":\"pricing\",\"message\":{\"id\":\"GOOG\"}}",
      "{\"type\":\"pricing\",\"message\":{}}",
      "{\"type\":\"pricing\"}",
      "{\"type\":\"heartbeat\"}",
      "{}",
      "{\"type\":\"pricing\",\"message\":\"x\"}",
      "[1]",
      "{oops" }

Obj(type, message, id) ==
    [kind |-> "object", type |-> type, message |-> message, id |-> id]

\* json.loads(raw): the decoded value, [kind |-> "invalid"] standing for the
\* JSONDecodeError it raises on text that is not JSON.
json_loads(raw) ==
    CASE raw = "{\"type\":\"pricing\",\"message\":{\"id\":\"AAPL\"}}"
            -> Obj("pricing", "object", "AAPL")
      [] raw = "{\"type\":\"pricing\",\"message\":{\"id\":\"GOOG\"}}"
            -> Obj("pricing", "object", "GOOG")
      [] raw = "{\"type\":\"pricing\",\"message\":{}}"
            -> Obj("pricing", "object", "absent")
      [] raw = "{\"type\":\"pricing\"}"
            -> Obj("pricing", "absent", "absent")
      [] raw = "{\"type\":\"heartbeat\"}"
            -> Obj("heartbeat", "absent", "absent")
      [] raw = "{}"
            -> Obj("absent", "absent", "absent")
      [] raw = "{\"type\":\"pricing\",\"message\":\"x\"}"
            -> Obj("pricing", "string", "absent")
      [] raw = "[1]"
            -> [kind |-> "array", type |-> "absent", message |-> "absent",
                id |-> "absent"]
      [] OTHER
            -> [kind |-> "invalid", type |-> "absent", message |-> "absent",
                id |-> "absent"]

\* data.get(...) exists on a dict only; message.get(...) likewise, where
\* message is data.get("message", {}).
HasGet(data) == data.kind = "object"
MessageHasGet(data) == data.message \in {"object", "absent"}

\* Mutant of SymbolOf: message.get("id") with no default, so a message with
\* no id is filed under None.
SymbolOfNoDefault(data) == IF data.id = "absent" THEN "None" ELSE data.id

\* symbol = message.get("id", "UNKNOWN")
SymbolOf(data) == IF data.id = "absent" THEN "UNKNOWN" ELSE data.id

\* -------------------------------------------------------------- the records

\* Mutant of Prune: the comparison widened to <=, so a timestamp exactly at
\* now - 60 is dropped too.
RECURSIVE PruneInclusive(_, _)
PruneInclusive(dq, one_minute_ago) ==
    IF dq # <<>> /\ Head(dq) <= one_minute_ago
    THEN PruneInclusive(Tail(dq), one_minute_ago)
    ELSE dq

\* Mutant of Prune: "if" for "while", one stale timestamp dropped per call.
PruneOnce(dq, one_minute_ago) ==
    IF dq # <<>> /\ Head(dq) < one_minute_ago THEN Tail(dq) ELSE dq

\* Mutant of Prune: the deque rebuilt from its fresh timestamps, wherever the
\* stale ones stand.
PruneFilter(dq, one_minute_ago) ==
    SelectSeq(dq, LAMBDA t : t >= one_minute_ago)

\* while dq and dq[0] < one_minute_ago: dq.popleft()
RECURSIVE Prune(_, _)
Prune(dq, one_minute_ago) ==
    IF dq # <<>> /\ Head(dq) < one_minute_ago
    THEN Prune(Tail(dq), one_minute_ago)
    ELSE dq

\* Mutant of PruneAll: a key whose deque is pruned to empty is deleted.
PruneAllDropEmpty(d, one_minute_ago) ==
    SelectSeq([i \in 1..Len(d) |-> <<d[i][1], Prune(d[i][2], one_minute_ago)>>],
              LAMBDA e : e[2] # <<>>)

\* The for loop of lines 35-37 over symbol_timestamps.items(): every deque pruned
\* in place, the keys and their order kept.
PruneAll(d, one_minute_ago) ==
    [i \in 1..Len(d) |-> <<d[i][1], Prune(d[i][2], one_minute_ago)>>]

\* Mutant of PerSymbolRates: the test len(dq) > 0 left out.
PerSymbolRatesAll(d) ==
    [i \in 1..Len(d) |-> <<d[i][1], Len(d[i][2])>>]

\* per_symbol_rates: the symbols whose pruned deque is not empty, with its
\* length, in the dict's iteration order.
RECURSIVE PerSymbolRates(_)
PerSymbolRates(d) ==
    IF d = <<>> THEN <<>>
    ELSE LET rest == PerSymbolRates(Tail(d))
         IN IF Len(Head(d)[2]) > 0
            THEN <<(<<Head(d)[1], Len(Head(d)[2])>>)>> \o rest
            ELSE rest

\* sorted(items, key=lambda x: x[1], reverse=True): a stable sort on the rate
\* alone, descending; items of equal rate keep the order they came in.
RECURSIVE InsertByRate(_, _)
InsertByRate(sorted, item) ==
    IF sorted = <<>> THEN <<item>>
    ELSE IF Head(sorted)[2] >= item[2]
         THEN <<Head(sorted)>> \o InsertByRate(Tail(sorted), item)
         ELSE <<item>> \o sorted

RECURSIVE SortedRates(_)
SortedRates(items) ==
    IF items = <<>> THEN <<>>
    ELSE InsertByRate(SortedRates(SubSeq(items, 1, Len(items) - 1)),
                      items[Len(items)])

\* symbol_timestamps[symbol].append(now) on a defaultdict(deque): a missing key
\* is created, at the end of the dict's order, with an empty deque first.
DictAppend(d, symbol, now) ==
    IF \E i \in 1..Len(d) : d[i][1] = symbol
    THEN [i \in 1..Len(d) |->
            IF d[i][1] = symbol THEN <<symbol, Append(d[i][2], now)>> ELSE d[i]]
    ELSE Append(d, <<symbol, <<now>>>>)

Terminated == {"done", "cancelled", "failed"}

\* The value of report while the reporter is not inside a tick.
NoReport == [now |-> -1, global_rate |-> 0, entries |-> <<>>, upto |-> 0]

\* Lines 26-51 hold no await: from the moment the reporter's sleep returns to
\* the moment it sleeps again the event loop runs nothing else, so main is not
\* resumed (and nothing is delivered to it) while a tick is in progress.
LoopIdle == reporter_task # "printing"

\* -------------------------------------------------------------------- Init

Init ==
    /\ clock = 0
    /\ skew = 0
    /\ mainPc = "connect"
    /\ exc = "none"
    /\ loopEnd = "none"
    /\ reporter_task = "none"
    /\ deadline = 0
    /\ started_at = -1
    /\ cancel_called = FALSE
    /\ global_timestamps = <<>>
    /\ symbol_timestamps = <<>>
    /\ report = NoReport
    /\ reports = <<>>
    /\ system_messages = <<>>
    /\ console = <<>>
    /\ hist = <<>>

\* ------------------------------------------------------------------- time

\* Time passes while every task is suspended.
Advance ==
    /\ mainPc # "done"
    /\ clock + ClockStep <= MaxClock
    /\ clock' = clock + ClockStep
    /\ UNCHANGED <<skew, mainPc, exc, loopEnd, reporter_task, deadline,
                   started_at, cancel_called, global_timestamps,
                   symbol_timestamps, report, reports, system_messages,
                   console, hist>>

\* The wall clock is set back (by hand, or by a time synchronisation step);
\* the loop's monotonic time is not affected.  Modelled once, by one ClockStep.
ClockSetBack ==
    /\ mainPc # "done"
    /\ skew = 0
    /\ clock >= ClockStep
    /\ skew' = ClockStep
    /\ UNCHANGED <<clock, mainPc, exc, loopEnd, reporter_task, deadline,
                   started_at, cancel_called, global_timestamps,
                   symbol_timestamps, report, reports, system_messages,
                   console, hist>>

\* ------------------------------------------------------- main: the finally

\* Lines 88-99 once the exception (if any) has left the with-block: the except
\* clause that matches prints its line, then the finally clause runs up to its
\* await.  With no reporter task the function ends here; with a task that has
\* already ended by an exception, "await reporter_task" raises that exception,
\* which is no CancelledError, so line 99 is not reached.
Handlers(e) ==
    IF e = "cancelled" THEN <<"Shutdown signal received...">>
    ELSE IF e = "error" THEN <<"Unexpected Error">>
    ELSE <<>>

EnterFinally(e) ==
    IF reporter_task = "none"
    THEN /\ console' = console \o Handlers(e) \o <<"Clean shutdown complete.">>
         /\ mainPc' = "done"
         /\ cancel_called' = cancel_called
    ELSE /\ cancel_called' = TRUE
         /\ IF reporter_task = "failed"
            THEN /\ console' = console \o Handlers(e)
                 /\ mainPc' = "done"
            ELSE /\ console' = console \o Handlers(e)
                 /\ mainPc' = "joining"

\* ------------------------------------------------------- main: connecting

\* async with websockets.connect(URL) as ws: the connection is made.
ConnectOk ==
    /\ mainPc = "connect"
    /\ mainPc' = "send"
    /\ UNCHANGED <<clock, skew, exc, loopEnd, reporter_task, deadline,
                   started_at, cancel_called,
                   global_timestamps, symbol_timestamps, report, reports,
                   system_messages, console, hist>>

\* The connection fails, or main is cancelled while connecting: the with-block
\* is never entered and control goes to the except clauses and the finally.
ConnectFails ==
    /\ mainPc = "connect"
    /\ \E e \in {"error", "cancelled"} :
          /\ exc' = e
          /\ EnterFinally(e)
    /\ UNCHANGED <<clock, skew, loopEnd, reporter_task, deadline, started_at,
                   global_timestamps, symbol_timestamps, report, reports,
                   system_messages, hist>>

\* await ws.send(...) returns; lines 67-71 print and create the reporter task,
\* and the async for starts waiting for the first frame.
SendOk ==
    /\ mainPc = "send"
    /\ console' = console \o <<"Subscribed", "Running...">>
    /\ reporter_task' = "created"
    /\ mainPc' = "loop"
    /\ UNCHANGED <<clock, skew, exc, loopEnd, deadline, started_at,
                   cancel_called,
                   global_timestamps, symbol_timestamps, report, reports,
                   system_messages, hist>>

\* ws.send raises, or main is cancelled while sending: the exception leaves the
\* with-block, whose __aexit__ awaits the closing of the connection.
SendFails ==
    /\ mainPc = "send"
    /\ \E e \in {"error", "cancelled"} : exc' = e
    /\ mainPc' = "closing"
    /\ UNCHANGED <<clock, skew, loopEnd, reporter_task, deadline,
                   started_at, cancel_called,
                   global_timestamps, symbol_timestamps, report, reports,
                   system_messages, console, hist>>

\* ---------------------------------------------------- main: the async for

\* The loop ends with the with-block left: by exception e ("none" at the end
\* of the stream), for the reason why.
LeaveLoop(why, e) ==
    /\ loopEnd' = why
    /\ exc' = e
    /\ mainPc' = "closing"

\* Mutant of LoopBody: the receipt time is appended to the global record before
\* the frame is decoded.
LoopBodyRecordsFirst(raw) ==
    LET now == WallClock
        data == json_loads(raw)
    IN  IF data.kind = "invalid" \/ ~HasGet(data)
           \/ (data.type = "pricing" /\ ~MessageHasGet(data))
        THEN /\ LeaveLoop(IF data.kind = "invalid" THEN "decode" ELSE "shape",
                          "error")
             /\ global_timestamps' = Append(global_timestamps, now)
             /\ UNCHANGED <<symbol_timestamps, system_messages, hist>>
        ELSE IF data.type = "pricing"
        THEN /\ global_timestamps' = Append(global_timestamps, now)
             /\ symbol_timestamps' =
                   DictAppend(symbol_timestamps, SymbolOf(data), now)
             /\ hist' = Append(hist, [symbol |-> SymbolOf(data), t |-> now])
             /\ UNCHANGED <<mainPc, exc, loopEnd, system_messages>>
        ELSE /\ system_messages' = Append(system_messages, data)
             /\ UNCHANGED <<mainPc, exc, loopEnd, global_timestamps,
                            symbol_timestamps, hist>>

\* Mutant of LoopBody: the test on data.get("type") left out, every decoded
\* object recorded.
LoopBodyNoTypeCheck(raw) ==
    LET now == WallClock
        data == json_loads(raw)
    IN  IF data.kind = "invalid"
        THEN /\ LeaveLoop("decode", "error")
             /\ UNCHANGED <<global_timestamps, symbol_timestamps,
                            system_messages, hist>>
        ELSE IF ~HasGet(data) \/ ~MessageHasGet(data)
        THEN /\ LeaveLoop("shape", "error")
             /\ UNCHANGED <<global_timestamps, symbol_timestamps,
                            system_messages, hist>>
        ELSE /\ global_timestamps' = Append(global_timestamps, now)
             /\ symbol_timestamps' =
                   DictAppend(symbol_timestamps, SymbolOf(data), now)
             /\ hist' = Append(hist, [symbol |-> SymbolOf(data), t |-> now])
             /\ UNCHANGED <<mainPc, exc, loopEnd, system_messages>>

\* Lines 75-86 for one frame raw.
LoopBody(raw) ==
    LET now == WallClock
        data == json_loads(raw)
    IN  IF data.kind = "invalid"
        THEN /\ LeaveLoop("decode", "error")
             /\ UNCHANGED <<global_timestamps, symbol_timestamps,
                            system_messages, hist>>
        ELSE IF ~HasGet(data)
        THEN /\ LeaveLoop("shape", "error")
             /\ UNCHANGED <<global_timestamps, symbol_timestamps,
                            system_messages, hist>>
        ELSE IF data.type = "pricing"
        THEN IF ~MessageHasGet(data)
             THEN /\ LeaveLoop("shape", "error")
                  /\ UNCHANGED <<global_timestamps, symbol_timestamps,
                                 system_messages, hist>>
             ELSE /\ global_timestamps' = Append(global_timestamps, now)
                  /\ symbol_timestamps' =
                        DictAppend(symbol_timestamps, SymbolOf(data), now)
                  /\ hist' = Append(hist, [symbol |-> SymbolOf(data), t |-> now])
                  /\ UNCHANGED <<mainPc, exc, loopEnd, system_messages>>
        ELSE /\ system_messages' = Append(system_messages, data)
             /\ UNCHANGED <<mainPc, exc, loopEnd, global_timestamps,
                            symbol_timestamps, hist>>

\* Number of frames the loop has taken so far.
FramesTaken ==
    Len(hist) + Len(system_messages)
        + (IF loopEnd \in {"decode", "shape"} THEN 1 ELSE 0)

\* async for raw in ws: the next frame arrives and the body runs on it.
ProcessFrame ==
    /\ mainPc = "loop"
    /\ LoopIdle
    /\ FramesTaken < MaxFrames
    /\ \E raw \in RawFrames : LoopBody(raw)
    /\ UNCHANGED <<clock, skew, reporter_task, deadline, started_at,
                   cancel_called, report, reports,
                   console>>

\* The iteration ends: the connection was closed normally (the async for just
\* stops), it broke (ConnectionClosedError), or main was cancelled while
\* waiting for a frame.
StreamEnds ==
    /\ mainPc = "loop"
    /\ LoopIdle
    /\ \/ LeaveLoop("eos", "none")
       \/ LeaveLoop("transport", "error")
       \/ LeaveLoop("cancel", "cancelled")
    /\ UNCHANGED <<clock, skew, reporter_task, deadline,
                   started_at, cancel_called,
                   global_timestamps, symbol_timestamps, report, reports,
                   system_messages, console, hist>>

\* ----------------------------------------------- main: leaving the with

\* main is cancelled while __aexit__ awaits the close: the CancelledError
\* replaces whatever was travelling.
CancelWhileClosing ==
    /\ mainPc = "closing"
    /\ LoopIdle
    /\ exc # "cancelled"
    /\ exc' = "cancelled"
    /\ UNCHANGED <<clock, skew, mainPc, loopEnd, reporter_task, deadline, started_at,
                   cancel_called, global_timestamps, symbol_timestamps,
                   report, reports, system_messages, console, hist>>

\* The close completes; except and finally run up to "await reporter_task".
CloseDone ==
    /\ mainPc = "closing"
    /\ LoopIdle
    /\ EnterFinally(exc)
    /\ UNCHANGED <<clock, skew, exc, loopEnd, reporter_task, deadline, started_at,
                   global_timestamps, symbol_timestamps, report, reports,
                   system_messages, hist>>

\* Mutant of JoinReporter: the task is cancelled but not awaited.
JoinReporterNoWait ==
    /\ mainPc = "joining"
    /\ console' = Append(console, "Clean shutdown complete.")
    /\ mainPc' = "done"
    /\ UNCHANGED <<clock, skew, exc, loopEnd, reporter_task, deadline,
                   started_at, cancel_called,
                   global_timestamps, symbol_timestamps, report, reports,
                   system_messages, hist>>

\* await reporter_task returns (the reporter swallowed its cancellation) or
\* raises CancelledError (the task was cancelled before its first step), which
\* line 97 swallows; line 99 prints.
JoinReporter ==
    /\ mainPc = "joining"
    /\ reporter_task \in Terminated
    /\ console' = Append(console, "Clean shutdown complete.")
    /\ mainPc' = "done"
    /\ UNCHANGED <<clock, skew, exc, loopEnd, reporter_task, deadline,
                   started_at, cancel_called,
                   global_timestamps, symbol_timestamps, report, reports,
                   system_messages, hist>>

\* ------------------------------------------------------------ rate_printer

\* The task's first step: it enters the try and the loop and suspends in
\* asyncio.sleep(60).
ReporterStart ==
    /\ reporter_task = "created"
    /\ ~cancel_called
    /\ reporter_task' = "sleeping"
    /\ deadline' = clock + SleepSecs
    /\ started_at' = clock
    /\ UNCHANGED <<clock, skew, mainPc, exc, loopEnd, cancel_called,
                   global_timestamps, symbol_timestamps, report, reports,
                   system_messages, console, hist>>

\* One report: lines 26-45 on the records as they are at time now.
Summary(now) ==
    LET one_minute_ago == now - Window
        g == Prune(global_timestamps, one_minute_ago)
        d == PruneAll(symbol_timestamps, one_minute_ago)
    IN  [now |-> now,
         global_rate |-> Len(g),
         entries |-> SortedRates(PerSymbolRates(d)),
         upto |-> Len(hist)]

\* The sleep is over (at its deadline or later): lines 26-45 prune the records
\* and build the summary; the prints of lines 47-51 come next, with no await
\* in between.
ReporterTick ==
    /\ reporter_task = "sleeping"
    /\ ~cancel_called
    /\ clock >= deadline
    /\ global_timestamps' = Prune(global_timestamps, WallClock - Window)
    /\ symbol_timestamps' = PruneAll(symbol_timestamps, WallClock - Window)
    /\ report' = Summary(WallClock)
    /\ reporter_task' = "printing"
    /\ UNCHANGED <<clock, skew, mainPc, exc, loopEnd, deadline, started_at,
                   cancel_called,
                   reports, system_messages, console, hist>>

\* Lines 47-51 print the summary, however long that takes, and the loop goes
\* back to asyncio.sleep(60).
ReporterPrints ==
    /\ reporter_task = "printing"
    /\ reports' = Append(reports, report)
    /\ report' = NoReport
    /\ reporter_task' = "sleeping"
    /\ deadline' = clock + SleepSecs
    /\ UNCHANGED <<clock, skew, mainPc, exc, loopEnd, started_at,
                   cancel_called, global_timestamps, symbol_timestamps,
                   system_messages, console, hist>>

\* print raises at line 47 (the output stream is closed, or cannot encode the
\* text): no CancelledError, so the task ends with that exception.
ReporterTickFails ==
    /\ reporter_task = "printing"
    /\ report' = NoReport
    /\ reporter_task' = "failed"
    /\ UNCHANGED <<clock, skew, mainPc, exc, loopEnd, deadline, started_at,
                   cancel_called,
                   global_timestamps, symbol_timestamps, reports,
                   system_messages, console, hist>>

\* Mutant of ReporterCancelled: no except clause around the loop, so the
\* CancelledError raised at the sleep ends the task cancelled.
ReporterCancelledNotCaught ==
    /\ cancel_called
    /\ reporter_task \in {"created", "sleeping"}
    /\ reporter_task' = "cancelled"
    /\ UNCHANGED <<clock, skew, mainPc, exc, loopEnd, deadline, started_at,
                   cancel_called, global_timestamps, symbol_timestamps,
                   report, reports, system_messages, console, hist>>

\* The step of the task after cancel(): CancelledError is raised at the sleep,
\* line 53 catches it and the coroutine returns; a task that had not run yet
\* never enters the try and ends cancelled.
ReporterCancelled ==
    /\ cancel_called
    /\ reporter_task \in {"created", "sleeping"}
    /\ reporter_task' = IF reporter_task = "created" THEN "cancelled" ELSE "done"
    /\ UNCHANGED <<clock, skew, mainPc, exc, loopEnd, deadline, started_at,
                   cancel_called,
                   global_timestamps, symbol_timestamps, report, reports,
                   system_messages, console, hist>>

\* ------------------------------------------------------------------- Spec

Next ==
    \/ Advance
    \/ ConnectOk
    \/ ConnectFails
    \/ SendOk
    \/ SendFails
    \/ ProcessFrame
    \/ StreamEnds
    \/ CancelWhileClosing
    \/ CloseDone
    \/ JoinReporter
    \/ ReporterStart
    \/ ReporterTick
    \/ ReporterPrints
    \/ ReporterTickFails
    \/ ReporterCancelled

\* The program on a machine whose wall clock is never set back: time.time()
\* runs with the loop's clock and the timestamps recorded are non-decreasing.
Spec == Init /\ [][Next]_vars

\* The same program on a machine whose wall clock may be set back.
SkewNext == Next \/ ClockSetBack

SkewSpec == Init /\ [][SkewNext]_vars

\* The event loop runs every task that is ready: a close that completes, a
\* cancelled reporter and a join whose task has ended all get their step, and
\* a tick in progress comes to its end.  No fairness is asked of the source
\* (frames, end of stream) or of the clock.
FairSpec ==
    /\ Spec
    /\ WF_vars(ReporterPrints \/ ReporterTickFails)
    /\ WF_vars(CloseDone)
    /\ WF_vars(ReporterCancelled)
    /\ WF_vars(JoinReporter)

\* ------------------------------------------------------ reading the state

Symbols == {"AAPL", "GOOG", "UNKNOWN"}

Has(seq, x) == \E i \in 1..Len(seq) : seq[i] = x

\* The rate a report shows for symbol k: 0 when k has no entry.
RateOf(r, k) ==
    IF \E j \in 1..Len(r.entries) : r.entries[j][1] = k
    THEN (CHOOSE e \in {r.entries[j] : j \in 1..Len(r.entries)} : e[1] = k)[2]
    ELSE 0

\* The events recorded for k before report r was made, and those of them
\* whose timestamp is >= now - 60.
RecordedBefore(r, k) == {i \in 1..r.upto : hist[i].symbol = k}
InWindow(r, k) == {i \in RecordedBefore(r, k) : hist[i].t >= r.now - Window}

RECURSIVE SumRates(_)
SumRates(entries) ==
    IF entries = <<>> THEN 0 ELSE Head(entries)[2] + SumRates(Tail(entries))

LastReport == reports[Len(reports)]

ShutdownComplete == Has(console, "Clean shutdown complete.")

\* ------------------------------------------------------------------ claims

\* C1: the rate every report shows for every key is exactly the number of
\* timestamps recorded for that key (before the tick) with value >= now - 60,
\* so a timestamp equal to now - 60 is counted; and after the tick no record
\* holds a timestamp below now - 60.
C1_RateCountsWindow ==
    /\ \A n \in 1..Len(reports) : \A k \in Symbols :
          RateOf(reports[n], k) = Cardinality(InWindow(reports[n], k))
    /\ reports # <<>> =>
          /\ \A i \in 1..Len(global_timestamps) :
                global_timestamps[i] >= LastReport.now - Window
          /\ \A j \in 1..Len(symbol_timestamps) :
                \A i \in 1..Len(symbol_timestamps[j][2]) :
                   symbol_timestamps[j][2][i] >= LastReport.now - Window

\* A report made when one key had a timestamp exactly at now - 60 (counted) and
\* an older one (removed).
C1_Witness ==
    \E n \in 1..Len(reports) : \E k \in Symbols :
       /\ \E i \in RecordedBefore(reports[n], k) :
             hist[i].t = reports[n].now - Window
       /\ \E i \in RecordedBefore(reports[n], k) :
             hist[i].t < reports[n].now - Window
       /\ RateOf(reports[n], k) = 1

\* C2: in every report the global rate equals the sum of the per-key rates of
\* the same report.
C2_GlobalIsSumOfKeys ==
    \A n \in 1..Len(reports) :
       reports[n].global_rate = SumRates(reports[n].entries)

\* Event i of the history is still in its key's record: records lose entries
\* at the head only, so a key's record holds its latest events.
KeyRecord(k) ==
    IF \E j \in 1..Len(symbol_timestamps) : symbol_timestamps[j][1] = k
    THEN (CHOOSE e \in {symbol_timestamps[j] : j \in 1..Len(symbol_timestamps)} :
             e[1] = k)[2]
    ELSE <<>>

EventsOf(k, upto) == {i \in 1..upto : hist[i].symbol = k}

Retained(i) ==
    LET k == hist[i].symbol
    IN  Cardinality({j \in EventsOf(k, Len(hist)) : j >= i}) <= Len(KeyRecord(k))

\* Event i was counted in report r: it was recorded before r and was among
\* the RateOf(r, k) latest events of its key at that time.
CountedIn(i, r) ==
    LET k == hist[i].symbol
    IN  /\ i <= r.upto
        /\ Cardinality({j \in EventsOf(k, r.upto) : j >= i}) <= RateOf(r, k)

\* C3: while the reporter goes on ticking, no recorded event leaves its record
\* without having been counted in a report.
C3_NoEventLostUncounted ==
    reporter_task \notin {"failed", "printing"} =>
       \A i \in 1..Len(hist) :
          Retained(i) \/ \E n \in 1..Len(reports) : CountedIn(i, reports[n])

\* The order of the symbols as strings.
SymbolRank(k) == CASE k = "AAPL" -> 1 [] k = "GOOG" -> 2 [] OTHER -> 3

\* C4: every report's entries are ordered by rate descending, and entries of
\* equal rate by symbol ascending.
C4_SortedRateThenSymbol ==
    \A n \in 1..Len(reports) :
       \A i, j \in 1..Len(reports[n].entries) :
          i < j =>
             LET a == reports[n].entries[i]
                 b == reports[n].entries[j]
             IN  \/ a[2] > b[2]
                 \/ a[2] = b[2] /\ SymbolRank(a[1]) < SymbolRank(b[1])

\* C5: every entry of every report has rate > 0, and a key has an entry in a
\* report exactly when it has a timestamp inside the window at that tick.
C5_EntriesArePositive ==
    \A n \in 1..Len(reports) :
       /\ \A j \in 1..Len(reports[n].entries) : reports[n].entries[j][2] > 0
       /\ \A k \in Symbols :
             (\E j \in 1..Len(reports[n].entries) : reports[n].entries[j][1] = k)
                <=> InWindow(reports[n], k) # {}

\* A report that leaves out a known key whose events are all stale and lists
\* another key.
C5_Witness ==
    \E n \in 1..Len(reports) : \E k \in Symbols :
       /\ RecordedBefore(reports[n], k) # {}
       /\ InWindow(reports[n], k) = {}
       /\ \A j \in 1..Len(reports[n].entries) : reports[n].entries[j][1] # k
       /\ reports[n].entries # <<>>

\* C6: when the loop has ended (end of stream, cancellation, decoding failure
\* or any other way), main goes on to call reporter_task.cancel() and to await
\* the task; the shutdown message is printed only once the reporter has ended.
C6_CleanupAfterLoop ==
    /\ [](ShutdownComplete => reporter_task \in Terminated \cup {"none"})
    /\ [](mainPc = "done" /\ loopEnd # "none" =>
             cancel_called /\ reporter_task \in Terminated)
    /\ \A why \in {"eos", "cancel", "decode"} :
          (loopEnd = why) ~>
             (mainPc = "done" /\ cancel_called /\ reporter_task \in Terminated)

\* The loop was cancelled, the reporter swallowed its cancellation and main
\* printed the message.
C6_Witness ==
    /\ loopEnd = "cancel"
    /\ mainPc = "done"
    /\ reporter_task = "done"
    /\ reports # <<>>
    /\ ShutdownComplete

\* C7: once the loop has ended and main is leaving the connection context, no
\* further report is produced.
C7_NoReportDuringTeardown ==
    [][(mainPc \in {"closing", "joining", "done"}) => (reports' = reports)]_vars

\* C8: a reporter that failed leads to main stopping the ingestion and
\* shutting down.
C8_ReporterFailureStopsIngestion ==
    (reporter_task = "failed") ~> (mainPc = "done")

\* C9: every way main ends has printed 'Clean shutdown complete.'.
C9_EveryExitPrintsComplete ==
    mainPc = "done" => ShutdownComplete

\* C10: the step that takes a malformed frame changes no record; after it no
\* frame is processed; main then cancels the reporter, awaits it and ends.
C10_DecodeFailureIsFatal ==
    /\ [][loopEnd = "none" /\ loopEnd' = "decode" =>
             /\ global_timestamps' = global_timestamps
             /\ symbol_timestamps' = symbol_timestamps]_vars
    /\ [][loopEnd = "decode" =>
             /\ hist' = hist
             /\ system_messages' = system_messages
             /\ loopEnd' = "decode"
             /\ Len(global_timestamps') <= Len(global_timestamps)]_vars
    /\ [](loopEnd = "decode" /\ mainPc = "done" =>
             cancel_called /\ reporter_task \in Terminated)
    /\ (loopEnd = "decode") ~> (mainPc = "done" /\ cancel_called)

\* A malformed frame arrived after an event had been recorded, and main has
\* shut down with the reporter ended.
C10_Witness ==
    /\ loopEnd = "decode"
    /\ hist # <<>>
    /\ global_timestamps # <<>>
    /\ mainPc = "done"
    /\ reporter_task = "done"

\* The record kept for symbol k in the dict d: empty when k is no key of d.
RecordOf(d, k) ==
    IF \E j \in 1..Len(d) : d[j][1] = k
    THEN (CHOOSE e \in {d[j] : j \in 1..Len(d)} : e[1] = k)[2]
    ELSE <<>>

KeysOf(d) == [j \in 1..Len(d) |-> d[j][1]]

\* The frames that decode to an object whose "type" is not "pricing", those
\* that decode at all, and the pricing frames that carry no id.
NonPricingFrames ==
    {raw \in RawFrames :
        json_loads(raw).kind = "object" /\ json_loads(raw).type # "pricing"}

DecodableFrames == {raw \in RawFrames : json_loads(raw).kind # "invalid"}

NoIdFrames ==
    {raw \in RawFrames :
        /\ json_loads(raw).kind = "object"
        /\ json_loads(raw).type = "pricing"
        /\ json_loads(raw).message \in {"object", "absent"}
        /\ json_loads(raw).id = "absent"}

\* C11: the loop body on a decoded message whose type is not "pricing" leaves
\* the global record and every per-key record as they are (no append, no key
\* made), prints the decoded message as it is, and stays in the loop.
C11_NonPricingIsForwarded ==
    [][\A raw \in NonPricingFrames :
          (mainPc = "loop" /\ LoopBody(raw)) =>
             (/\ global_timestamps' = global_timestamps
              /\ symbol_timestamps' = symbol_timestamps
              /\ system_messages' = Append(system_messages, json_loads(raw))
              /\ mainPc' = "loop"
              /\ loopEnd' = "none")]_vars

\* A heartbeat was forwarded with a pricing event on record, and the loop is
\* still waiting for frames.
C11_Witness ==
    /\ mainPc = "loop"
    /\ Has(system_messages, Obj("heartbeat", "absent", "absent"))
    /\ global_timestamps # <<>>
    /\ symbol_timestamps # <<>>

\* C12: the loop body on any frame that decodes either records it or forwards
\* it, and stays in the loop.
C12_DecodedFrameNeverEndsLoop ==
    [][\A raw \in DecodableFrames :
          (mainPc = "loop" /\ LoopBody(raw)) =>
             (/\ mainPc' = "loop"
              /\ \/ hist' # hist
                 \/ system_messages' = Append(system_messages, json_loads(raw)))]_vars

\* The reporter ends in this step, with a cancellation pending.
CancelObserved ==
    /\ cancel_called
    /\ reporter_task \notin Terminated
    /\ reporter_task' \in Terminated

\* C13: a cancellation of the reporter is observed only in its sleep, finds no
\* tick in progress and lets none start, and ends the task normally.
C13_CancelOnlyInSleepEndsNormally ==
    [][/\ cancel_called => (/\ reporter_task # "printing"
                            /\ report = NoReport
                            /\ reports' = reports)
       /\ CancelObserved => (/\ reporter_task = "sleeping"
                             /\ reporter_task' = "done")]_vars

\* C13 (amended): a cancellation of the reporter is observed in its sleep or
\* before its first step; it finds no tick in progress and after it no record
\* is pruned and no report made; a reporter cancelled in its sleep ends
\* normally, one cancelled before its first step ends cancelled, having
\* reported nothing, and main prints its last line in both cases.
C13_CancelNeverSplitsATick ==
    /\ [](cancel_called => reporter_task # "printing" /\ report = NoReport)
    /\ [][cancel_called =>
             (/\ reports' = reports
              /\ global_timestamps' = global_timestamps
              /\ symbol_timestamps' = symbol_timestamps)]_vars
    /\ [][CancelObserved =>
             (\/ reporter_task = "sleeping" /\ reporter_task' = "done"
              \/ reporter_task = "created" /\ reporter_task' = "cancelled")]_vars
    /\ [](reporter_task = "cancelled" => started_at = -1 /\ reports = <<>>)
    /\ [](mainPc = "done" /\ reporter_task \in {"done", "cancelled"} =>
             ShutdownComplete)

\* The reporter had reported, was cancelled in the middle of a sleep and has
\* returned; main is about to get the result of its await.
C13_Witness ==
    /\ cancel_called
    /\ reporter_task = "done"
    /\ mainPc = "joining"
    /\ reports # <<>>
    /\ clock < deadline
    /\ global_timestamps # <<>>

\* The instants at which the idempotence of the tick is examined in a state.
SnapshotTimes == {WallClock, WallClock + ClockStep, WallClock + Window}

\* C14: pruning and summarising twice with the same now, nothing recorded in
\* between, gives the same global rate and the same entries, and the second
\* time removes nothing from the global record or from any key's record; in
\* particular right after the prune of a tick, a second prune and summary at
\* the tick's now changes nothing and gives the tick's report.
C14_SnapshotIdempotent ==
    /\ \A now \in SnapshotTimes :
          LET g1 == Prune(global_timestamps, now - Window)
              d1 == PruneAll(symbol_timestamps, now - Window)
              g2 == Prune(g1, now - Window)
              d2 == PruneAll(d1, now - Window)
          IN  /\ g2 = g1
              /\ d2 = d1
              /\ SortedRates(PerSymbolRates(d2)) = SortedRates(PerSymbolRates(d1))
    /\ reporter_task = "printing" =>
          /\ Summary(report.now) = report
          /\ Prune(global_timestamps, report.now - Window) = global_timestamps
          /\ PruneAll(symbol_timestamps, report.now - Window) = symbol_timestamps

\* A tick has just pruned the records: it removed an event, kept another, and
\* its report is about to be printed.
C14_Witness ==
    /\ reporter_task = "printing"
    /\ report.upto = Len(hist)
    /\ report.global_rate >= 1
    /\ Len(global_timestamps) < Len(hist)

\* C15: while the reporter is in its output step (lines 47-51) the ingestion
\* loop can still take its next frame and record it.
C15_IngestionRunsWhileReporterPrints ==
    (reporter_task = "printing" /\ mainPc = "loop" /\ FramesTaken < MaxFrames)
       => ENABLED ProcessFrame

\* C16: the loop body on a pricing message that has no id appends exactly one
\* timestamp (the receipt time) to the record of the key "UNKNOWN", making the
\* key if need be, and one to the global record; the record of every other key
\* stays as it is, and no other key is made.
C16_NoIdGoesToUnknown ==
    [][\A raw \in NoIdFrames :
          (mainPc = "loop" /\ LoopBody(raw)) =>
             (/\ RecordOf(symbol_timestamps', "UNKNOWN") =
                    Append(RecordOf(symbol_timestamps, "UNKNOWN"), WallClock)
              /\ Has(KeysOf(symbol_timestamps'), "UNKNOWN")
              /\ global_timestamps' = Append(global_timestamps, WallClock)
              /\ \A j \in 1..Len(symbol_timestamps') :
                    symbol_timestamps'[j][1] # "UNKNOWN" =>
                       /\ j <= Len(symbol_timestamps)
                       /\ symbol_timestamps'[j] = symbol_timestamps[j]
              /\ Len(symbol_timestamps') <= Len(symbol_timestamps) + 1
              /\ mainPc' = "loop")]_vars

\* An event without id was recorded after one with an id: both keys hold a
\* timestamp.
C16_Witness ==
    /\ Len(hist) = 2
    /\ hist[1].symbol = "AAPL"
    /\ hist[2].symbol = "UNKNOWN"
    /\ RecordOf(symbol_timestamps, "UNKNOWN") # <<>>
    /\ RecordOf(symbol_timestamps, "AAPL") # <<>>

\* The number of timestamps held by all the per-key records of d together.
RECURSIVE SumLens(_)
SumLens(d) == IF d = <<>> THEN 0 ELSE Len(Head(d)[2]) + SumLens(Tail(d))

\* Event i of the history is still in the global record: the record loses
\* entries at the head only, so it holds the latest events.
InGlobal(i) == Len(hist) - i < Len(global_timestamps)

\* C17: in every state each recorded event is in both its key's record and
\* the global record or in neither, and the global record is as long as all
\* the per-key records together.
C17_RecordsAgree ==
    /\ \A i \in 1..Len(hist) : Retained(i) <=> InGlobal(i)
    /\ Len(global_timestamps) = SumLens(symbol_timestamps)

\* The length of the longest prefix of dq whose timestamps are all < cutoff,
\* and dq without that prefix.
StalePrefix(dq, cutoff) ==
    CHOOSE n \in 0..Len(dq) :
       /\ \A i \in 1..n : dq[i] < cutoff
       /\ n = Len(dq) \/ dq[n + 1] >= cutoff

HeadTruncated(dq, cutoff) == SubSeq(dq, StalePrefix(dq, cutoff) + 1, Len(dq))

\* The step is a recording of an event for key k, or the pruning of a tick.
RecordsEvent(k) ==
    hist' = Append(hist, [symbol |-> k, t |-> WallClock])

IsPrune == reporter_task = "sleeping" /\ reporter_task' = "printing"

\* What a step may do to one record dq, new its value after the step: nothing,
\* one append of the receipt time at the tail when the step records an event
\* for the record (mine), the removal of the longest stale prefix in a tick.
EndsOnly(dq, new, mine) ==
    \/ ~mine /\ ~IsPrune /\ new = dq
    \/ mine /\ ~IsPrune /\ new = Append(dq, WallClock)
    \/ ~mine /\ IsPrune /\ new = HeadTruncated(dq, WallClock - Window)

\* C18: every step changes every record at its ends only.  A step that
\* records an event appends its receipt time to the record of the event's key
\* and to the global record; a tick removes from the global record and from
\* each key's record exactly its own longest prefix of timestamps < now - 60,
\* whatever lies behind that prefix and whatever the other records hold; no
\* other step touches a record, and no key is lost.
C18_RecordsChangeAtEndsOnly ==
    [][/\ EndsOnly(global_timestamps, global_timestamps', hist' # hist)
       /\ hist' # hist => \E k \in Symbols : RecordsEvent(k)
       /\ Len(symbol_timestamps') >= Len(symbol_timestamps)
       /\ \A j \in 1..Len(symbol_timestamps') :
             LET k == symbol_timestamps'[j][1]
             IN  /\ j <= Len(symbol_timestamps) => symbol_timestamps[j][1] = k
                 /\ EndsOnly(RecordOf(symbol_timestamps, k),
                             symbol_timestamps'[j][2],
                             RecordsEvent(k))]_vars

\* A tick has just pruned records that were not in time order: the global
\* record keeps a stale timestamp behind its fresh head, while the record of
\* the key of that stale event was emptied.
C18_Witness ==
    /\ reporter_task = "printing"
    /\ Len(global_timestamps) = 2
    /\ global_timestamps[1] >= report.now - Window
    /\ global_timestamps[2] < report.now - Window
    /\ RecordOf(symbol_timestamps, hist[2].symbol) = <<>>
    /\ RecordOf(symbol_timestamps, hist[1].symbol) # <<>>

\* The symbols of the events of h, each once, in the order of first occurrence.
RECURSIVE FirstSeen(_)
FirstSeen(h) ==
    IF h = <<>> THEN <<>>
    ELSE LET before == FirstSeen(SubSeq(h, 1, Len(h) - 1))
             k == h[Len(h)].symbol
         IN  IF Has(before, k) THEN before ELSE Append(before, k)

\* The timestamps of the latest n events recorded for key k.
RECURSIVE LatestOf(_, _, _)
LatestOf(h, k, n) ==
    IF n = 0 \/ h = <<>> THEN <<>>
    ELSE IF h[Len(h)].symbol = k
    THEN Append(LatestOf(SubSeq(h, 1, Len(h) - 1), k, n - 1), h[Len(h)].t)
    ELSE LatestOf(SubSeq(h, 1, Len(h) - 1), k, n)

\* C19: the keys of the map are at every moment exactly the symbols for which
\* a pricing event has been recorded so far, in the order of their first
\* event: none before the first event (whatever was subscribed), none ever
\* removed, even when its record has been pruned to empty; and the record of
\* a key holds the timestamps of its latest events, so an event that arrives
\* for an emptied key is in its record and counted by the next tick.
C19_KeysGrowLazilyNeverShrink ==
    /\ KeysOf(symbol_timestamps) = FirstSeen(hist)
    /\ \A k \in Symbols :
          LET dq == RecordOf(symbol_timestamps, k)
          IN  dq = LatestOf(hist, k, Len(dq))
    /\ reporter_task = "printing" =>
          \A k \in Symbols :
             RateOf(report, k) = Len(RecordOf(symbol_timestamps, k))

\* A key was left out of one report, all its events being stale, while it
\* stayed in the map with an empty record, and is listed in a later report
\* after a new event for it.
C19_Witness ==
    \E n, m \in 1..Len(reports) : \E k \in Symbols :
       /\ n < m
       /\ RecordedBefore(reports[n], k) # {}
       /\ RateOf(reports[n], k) = 0
       /\ RateOf(reports[m], k) > 0
       /\ Has(KeysOf(symbol_timestamps), k)

\* Every report was made a full sleep after the start of the reporter and a
\* full sleep after the report before it (loop time; the wall clock of Spec
\* runs with it).
ReportsSpaced ==
    /\ \A n \in 1..Len(reports) : reports[n].now >= started_at + SleepSecs
    /\ \A n \in 1..Len(reports) - 1 :
          reports[n + 1].now >= reports[n].now + SleepSecs

\* C20: no report is made before 60 have passed since the reporter started,
\* consecutive reports are at least 60 apart, and the reporter goes on
\* ticking until it is cancelled: it ends only after cancel() was called.
C20_ReporterTicksUntilCancelled ==
    /\ ReportsSpaced
    /\ reporter_task \in Terminated => cancel_called

====
